---- MODULE Spec2Model ----
(***************************************************************************)
(* A model of the pc_jamf client library (src/pc_jamf/__init__.py).        *)
(*                                                                         *)
(* Spec      the session lifecycle of one PCJAMF object: authenticate,     *)
(*           the authenticated property, validate, invalidate, close and   *)
(*           the passage of time.                                          *)
(* SpecBulk  the asynchronous bulk detail fetch (get_all_details): one     *)
(*           task per device stub, a connection pool of max_connections,   *)
(*           results gathered in completion order.                         *)
(* SpecProfile   the configuration-profile exclusion editor, in the modern *)
(*           class and in the legacy class (src/pc_jamf/pc_jamf.py).       *)
(* SpecPrestage  two callers editing one prestage's scope, each call split *)
(*           into its reads and its write.                                 *)
(* SpecCommands  the command-queue flush and the device rename.            *)
(* SpecFlatten   device_flattened over every bounded detail record.        *)
(* SpecSearch    search_devices of the legacy class.                       *)
(*                                                                         *)
(* Python values are modelled as records: None_ is None, Deleted is an     *)
(* attribute removed with `del`, Val(x) is any other value.  Time is in    *)
(* whole seconds; the token endpoint reports expiry in milliseconds.       *)
(***************************************************************************)
EXTENDS Integers, Sequences, FiniteSets, Bags, TLC

VARIABLES
    \* ---- the PCJAMF object (src/pc_jamf/__init__.py, __init__) ----
    token,                  \* self.token
    auth_expiration,        \* self.auth_expiration (seconds since the epoch)
    session_headers,        \* self.session.headers
    session_auth,           \* self.session.auth
    credentials,            \* self.credentials
    session_closed,         \* self.session has been closed
    classic_session_closed, \* self.classic_session has been closed
    \* ---- the environment ----
    now,                    \* datetime.now(), in seconds
    issued,                 \* number of tokens the token endpoint has issued
    last,                   \* the last operation: its name, outcome and traffic
    \* ---- one run of get_all_details ----
    phase,                  \* "idle", "running", "returned" or "raised"
    devices,                \* the list of device stubs passed in
    server,                 \* the server's answer to each device's detail call
    started,                \* number of tasks whose first step has run
    waiting,                \* requests queued for a free connection (FIFO)
    inflight,               \* bag of stubs whose request is on the network
    completed,              \* finished tasks not yet taken by as_completed
    results,                \* the results list, in completion order
    client_closed,          \* the short-lived AsyncClient has been closed
    \* ---- the remote server ----
    profiles,               \* each configuration profile's exclusion list
    prestage,               \* the prestage's scope: serial list and version lock
    mdm,                    \* each managed device's command queue and enforce flag
    inventory,              \* the detail record the server holds for the device
    \* ---- callers of the prestage scope editor ----
    editors                 \* each editor's position in its add or remove call

sessionVars == <<token, auth_expiration, session_headers, session_auth,
                 credentials, session_closed, classic_session_closed>>
envVars == <<now, issued, last>>
bulkVars == <<phase, devices, server, started, waiting, inflight, completed,
              results, client_closed>>
profileVars == <<profiles>>
prestageVars == <<prestage, editors>>
commandVars == <<mdm>>
inventoryVars == <<inventory>>
remoteVars == <<profileVars, prestageVars, commandVars, inventoryVars>>
vars == <<sessionVars, envVars, bulkVars, remoteVars>>

-----------------------------------------------------------------------------
(* Bounds of the model *)

MaxTime == 4        \* the clock runs from 0 to MaxTime
MaxTTL == 2         \* a token lives 1..MaxTTL seconds
MaxTokens == 3      \* the token endpoint issues at most this many tokens
MaxStubs == 3       \* small batches have at most this many stubs
MaxDeviceId == 3    \* device ids are 1..MaxDeviceId
MaxExtra == 2       \* large batches exceed the connection limit by 1..MaxExtra
MaxExcluded == 2    \* an exclusion list holds at most this many device nodes
MaxNodeId == 2      \* the devices excluded from profiles have ids 1..MaxNodeId
MaxSerial == 2      \* devices in prestages have serial numbers 1..MaxSerial
MaxLock == 2        \* the prestage's version lock runs from 0 to MaxLock
MaxDepth == 1       \* values of a detail record nest at most this deep
MaxMatches == 2     \* a search is answered with at most this many devices

-----------------------------------------------------------------------------
(* Python values *)

None_ == [kind |-> "None"]
Deleted == [kind |-> "deleted"]
Val(x) == [kind |-> "value", v |-> x]
IsVal(x) == x.kind = "value"

AUTH_ENDPOINT == "auth/tokens"
VALIDATION_ENDPOINT == "auth/current"
INVALIDATE_ENDPOINT == "auth/invalidateToken"

\* The statuses a server answers with: success, client error, server error.
Statuses == {200, 401, 500}
MillisPerSecond == 1000

\* A response as the client sees it; token and expires are 0 unless it is the
\* token endpoint's successful answer.
Response(status, tok, expires) ==
    [status |-> status, token |-> tok, expires |-> expires]

\* httpx raise_for_status(): raises on a 4xx or 5xx answer.
RaisesForStatus(status) == status >= 400

\* A variant of FromTimestamp that takes the milliseconds for seconds.
FromTimestampNoDivision(expiresMillis) == expiresMillis

\* datetime.fromtimestamp(millis / 1000), in whole seconds.
FromTimestamp(expiresMillis) == expiresMillis \div MillisPerSecond

Bearer(tok) == <<"Bearer", tok>>

SetHeader(h, k, v) == [x \in DOMAIN h \cup {k} |-> IF x = k THEN v ELSE h[x]]
DelHeader(h, k) == [x \in DOMAIN h \ {k} |-> h[x]]

\* The record of an operation: name, outcome (a return value or the name of
\* the exception raised), the endpoints requested and the responses received.
Op(name, result, sent, responses) ==
    [op |-> name, result |-> result, sent |-> sent, responses |-> responses]

-----------------------------------------------------------------------------
(* The authenticated property *)

\* A variant of authenticated that compares with >= instead of >.
authenticatedNotStrict ==
    IF token.kind = "deleted" THEN "AttributeError"
    ELSE IF token.kind = "None" THEN "None"
    ELSE IF auth_expiration.v >= now THEN "True"
    ELSE "False"

\* A variant of authenticated that never looks at the expiry.
authenticatedIgnoresExpiry ==
    IF token.kind = "deleted" THEN "AttributeError"
    ELSE IF token.kind = "None" THEN "None"
    ELSE "True"

\* `self.token and self.auth_expiration > datetime.now()`: reading a deleted
\* attribute raises AttributeError, a None token yields None.
authenticated ==
    IF token.kind = "deleted" THEN "AttributeError"
    ELSE IF token.kind = "None" THEN "None"
    ELSE IF auth_expiration.v > now THEN "True"
    ELSE "False"

-----------------------------------------------------------------------------
(* Initial state: PCJAMF.__init__ has run; no bulk fetch is under way *)

\* The configuration profiles the server holds.
ProfileIds == {1}

InitSession ==
    /\ token = None_
    /\ auth_expiration = None_
    /\ session_headers = [x \in {"Accept"} |-> <<"application/json">>]
    /\ session_auth = None_
    /\ credentials = <<"username", "password">>
    /\ session_closed = FALSE
    /\ classic_session_closed = FALSE

InitEnv ==
    /\ now = 0
    /\ issued = 0
    /\ last = Op("__init__", "None", <<>>, <<>>)

InitBulk ==
    /\ phase = "idle"
    /\ devices = <<>>
    /\ server = <<>>
    /\ started = 0
    /\ waiting = <<>>
    /\ inflight = EmptyBag
    /\ completed = <<>>
    /\ results = <<>>
    /\ client_closed = FALSE

\* The server: every profile's exclusion list is empty.
InitProfile ==
    profiles = [p \in ProfileIds |-> <<>>]

\* The callers that edit the prestage's scope, each with its own client.
Editors == {"a", "b"}

\* An editor between calls.
Idle == [pc |-> "idle", op |-> "", serial |-> 0, read |-> <<>>,
         pending |-> <<>>, lock |-> 0, sent |-> <<>>]

\* The prestage is empty, at version lock 0; no editor is in a call.
InitPrestage ==
    /\ prestage = [serials |-> <<>>, versionLock |-> 0]
    /\ editors = [e \in Editors |-> Idle]

\* The devices commands are sent to.
ManagedDevices == 1..MaxNodeId

\* No command is queued for any device and no name is enforced.
InitCommands ==
    mdm = [d \in ManagedDevices |-> [queue |-> {}, enforceName |-> FALSE]]

\* JSON values: a scalar (string, number, boolean or null), a list, an
\* object.
Scalar == [kind |-> "scalar"]
ListOf(items) == [kind |-> "list", items |-> items]
DictOf(fields) == [kind |-> "dict", fields |-> fields]

\* The device's detail record has an id and nothing else.
InitInventory ==
    inventory = ("id" :> Scalar)

InitRemote == InitProfile /\ InitPrestage /\ InitCommands /\ InitInventory

Init == InitSession /\ InitEnv /\ InitBulk /\ InitRemote

-----------------------------------------------------------------------------
(* Session operations *)

\* PCJAMF.authenticate.  A request on a closed client raises RuntimeError.
\* On success the server issues the next token, valid for ttl seconds.
Authenticate(status, ttl) ==
    /\ phase = "idle"
    /\ session_auth' = IF session_closed \/ RaisesForStatus(status)
                       THEN Val(credentials) ELSE None_
    /\ IF session_closed
       THEN /\ last' = Op("authenticate", "RuntimeError", <<>>, <<>>)
            /\ UNCHANGED <<token, auth_expiration, session_headers, issued>>
       ELSE IF RaisesForStatus(status)
       THEN /\ last' = Op("authenticate", "HTTPStatusError", <<AUTH_ENDPOINT>>,
                          <<Response(status, 0, 0)>>)
            /\ UNCHANGED <<token, auth_expiration, session_headers, issued>>
       ELSE /\ issued < MaxTokens
            /\ issued' = issued + 1
            /\ LET r == Response(status, issued + 1, (now + ttl) * MillisPerSecond)
               IN /\ token' = Val(r.token)
                  /\ auth_expiration' = Val(FromTimestamp(r.expires))
                  /\ session_headers' =
                        SetHeader(session_headers, "Authorization", Bearer(r.token))
                  /\ last' = Op("authenticate", "None", <<AUTH_ENDPOINT>>, <<r>>)
    /\ UNCHANGED <<credentials, session_closed, classic_session_closed, now>>
    /\ UNCHANGED <<bulkVars, remoteVars>>

\* Reading the authenticated property.
ReadAuthenticated ==
    /\ phase = "idle"
    /\ last' = Op("authenticated", authenticated, <<>>, <<>>)
    /\ UNCHANGED <<sessionVars, now, issued, bulkVars, remoteVars>>

\* PCJAMF.validate
Validate(status) ==
    /\ phase = "idle"
    /\ last' = IF session_closed
               THEN Op("validate", "RuntimeError", <<>>, <<>>)
               ELSE Op("validate", IF status < 400 THEN "True" ELSE "False",
                       <<VALIDATION_ENDPOINT>>, <<Response(status, 0, 0)>>)
    /\ UNCHANGED <<sessionVars, now, issued, bulkVars, remoteVars>>

\* What PCJAMF.invalidate returns or raises in the current state, with the
\* request it sends: the record of the call.
InvalidateOutcome(status) ==
    IF authenticated = "AttributeError"
    THEN Op("invalidate", "AttributeError", <<>>, <<>>)
    ELSE IF authenticated # "True"
    THEN Op("invalidate", "True", <<>>, <<>>)
    ELSE IF session_closed
    THEN Op("invalidate", "RuntimeError", <<>>, <<>>)
    ELSE IF status >= 400
    THEN Op("invalidate", "False", <<INVALIDATE_ENDPOINT>>,
            <<Response(status, 0, 0)>>)
    ELSE IF "Accept" \notin DOMAIN session_headers
    THEN \* del self.session.headers["Accept"] raises KeyError
         Op("invalidate", "KeyError", <<INVALIDATE_ENDPOINT>>,
            <<Response(status, 0, 0)>>)
    ELSE Op("invalidate", "True", <<INVALIDATE_ENDPOINT>>,
            <<Response(status, 0, 0)>>)

\* A variant of InvalidateEffect that removes the header before it looks at
\* the response status.
InvalidateEffectClearsFirst(status) ==
    LET rec == InvalidateOutcome(status)
    IN IF rec.sent # <<>> /\ "Accept" \in DOMAIN session_headers
       THEN /\ session_headers' = DelHeader(session_headers, "Accept")
            /\ IF rec.result = "True"
               THEN token' = Deleted /\ auth_expiration' = Deleted
               ELSE UNCHANGED <<token, auth_expiration>>
       ELSE UNCHANGED <<token, auth_expiration, session_headers>>

\* What PCJAMF.invalidate changes: after a response below 400 it deletes the
\* Accept header, the token and the expiry.
InvalidateEffect(status) ==
    LET rec == InvalidateOutcome(status)
    IN IF rec.result = "True" /\ rec.sent # <<>>
       THEN /\ session_headers' = DelHeader(session_headers, "Accept")
            /\ token' = Deleted
            /\ auth_expiration' = Deleted
       ELSE UNCHANGED <<token, auth_expiration, session_headers>>

\* PCJAMF.invalidate
Invalidate(status) ==
    /\ phase = "idle"
    /\ last' = InvalidateOutcome(status)
    /\ InvalidateEffect(status)
    /\ UNCHANGED <<session_auth, credentials, session_closed,
                   classic_session_closed, now, issued>>
    /\ UNCHANGED <<bulkVars, remoteVars>>

\* PCJAMF.close: invalidates and closes both clients, all inside
\* `if self.authenticated:`.
Close(status) ==
    /\ phase = "idle"
    /\ IF authenticated = "AttributeError"
       THEN /\ last' = Op("close", "AttributeError", <<>>, <<>>)
            /\ UNCHANGED <<token, auth_expiration, session_headers,
                           session_closed, classic_session_closed>>
       ELSE IF authenticated # "True"
       THEN /\ last' = Op("close", "None", <<>>, <<>>)
            /\ UNCHANGED <<token, auth_expiration, session_headers,
                           session_closed, classic_session_closed>>
       ELSE LET rec == InvalidateOutcome(status)
            IN IF rec.result \in {"KeyError", "RuntimeError"}
               THEN /\ last' = Op("close", rec.result, rec.sent, rec.responses)
                    /\ UNCHANGED <<token, auth_expiration, session_headers,
                                   session_closed, classic_session_closed>>
               ELSE /\ last' = Op("close", "None", rec.sent, rec.responses)
                    /\ InvalidateEffect(status)
                    /\ session_closed' = TRUE
                    /\ classic_session_closed' = TRUE
    /\ UNCHANGED <<session_auth, credentials, now, issued>>
    /\ UNCHANGED <<bulkVars, remoteVars>>

\* The passage of time.
Tick ==
    /\ phase = "idle"
    /\ now < MaxTime
    /\ now' = now + 1
    /\ last' = Op("tick", "None", <<>>, <<>>)
    /\ UNCHANGED <<sessionVars, issued, bulkVars, remoteVars>>

Next ==
    \/ \E status \in Statuses, ttl \in 1..MaxTTL : Authenticate(status, ttl)
    \/ ReadAuthenticated
    \/ \E status \in Statuses : Validate(status)
    \/ \E status \in Statuses : Invalidate(status)
    \/ \E status \in Statuses : Close(status)
    \/ Tick

Spec == Init /\ [][Next]_vars

-----------------------------------------------------------------------------
(* The bulk detail fetch: get_all_details, get_details_async *)

max_connections == 25

\* A device stub as get_details_async reads it: id 0 stands for a stub whose
\* `device.get("id")` is missing or falsy.
Stub(id) == [id |-> id]
DeviceIds == 1..MaxDeviceId
Stubs == {Stub(id) : id \in 0..MaxDeviceId}

\* What the server does with one detail request: it answers with a status, or
\* the transport gives up after its retries (httpx raises ConnectError).
DetailStatuses == {200, 500}
Answer(status) == [kind |-> "response", status |-> status]
ConnectError == [kind |-> "ConnectError", status |-> 0]
Outcomes == {Answer(st) : st \in DetailStatuses} \cup {ConnectError}

\* JSON documents: a device's detail record, the server's error document,
\* and Python's None.
Doc(kind, id, status) == [kind |-> kind, id |-> id, status |-> status]
DetailRecord(id) == Doc("detail", id, 200)
ErrorDocument(id, status) == Doc("error", id, status)
NoRecord == Doc("None", 0, 0)

\* r.json() of the answer to the detail request for device id.
Json(id, status) ==
    IF status = 200 THEN DetailRecord(id) ELSE ErrorDocument(id, status)

\* A variant of device that decodes the answer whatever its status.
deviceNoStatusCheck(id, status) == Json(id, status)

\* PCJAMF.device(device_id, detail=True): the record when the status is
\* below 400, None otherwise.
device(id, status) ==
    IF status < 400 THEN Json(id, status) ELSE NoRecord

\* How a task ended: with a value, or with the exception it raised.
Returned(doc) == [exc |-> "", value |-> doc]
Raised(exc) == [exc |-> exc, value |-> NoRecord]

\* What get_details_async returns or raises once the request for stub has
\* got its outcome: r.json() whatever the status.
get_details_async(stub, outcome) ==
    IF outcome.kind = "ConnectError"
    THEN Raised("ConnectError")
    ELSE Returned(Json(stub.id, outcome.status))

\* The lists of stubs a run is given: every list of at most MaxStubs stubs,
\* and lists longer than the connection limit (one device asked for again
\* and again, with or without an unusable stub in front).
SmallBatches == UNION {[1..n -> Stubs] : n \in 0..MaxStubs}
LargeBatches ==
    {prefix \o [i \in 1..(max_connections + extra) |-> Stub(1)] :
        prefix \in {<<>>, <<Stub(0)>>}, extra \in 1..MaxExtra}
UniformServers == {[id \in DeviceIds |-> o] : o \in Outcomes}

\* The runs explored: a small batch against any server, a large batch against
\* a server that treats every device alike.
Runs ==
    (SmallBatches \X [DeviceIds -> Outcomes]) \cup (LargeBatches \X UniformServers)

\* get_all_details is entered with a list of stubs: the client is created, no
\* task has run yet.
GetAllDetails ==
    /\ phase = "idle"
    /\ \E run \in Runs :
          /\ devices' = run[1]
          /\ server' = run[2]
    /\ phase' = "running"
    /\ last' = Op("get_all_details", "None", <<>>, <<>>)
    /\ UNCHANGED <<started, waiting, inflight, completed, results, client_closed>>
    /\ UNCHANGED <<sessionVars, now, issued, remoteVars>>

\* The first step of the next task, in creation order: a stub without an id
\* raises ValueError; otherwise the request takes a connection if the pool
\* has one free and nobody queues for it, and queues if not.
StartTask ==
    /\ phase = "running"
    /\ started < Len(devices)
    /\ started' = started + 1
    /\ LET stub == devices[started + 1]
       IN IF stub.id = 0
          THEN /\ completed' = Append(completed, Raised("ValueError"))
               /\ UNCHANGED <<waiting, inflight>>
          ELSE IF BagCardinality(inflight) < max_connections /\ waiting = <<>>
          THEN /\ inflight' = inflight (+) SetToBag({stub})
               /\ UNCHANGED <<waiting, completed>>
          ELSE /\ waiting' = Append(waiting, stub)
               /\ UNCHANGED <<inflight, completed>>
    /\ UNCHANGED <<phase, devices, server, results, client_closed>>
    /\ UNCHANGED <<sessionVars, envVars, remoteVars>>

\* The pool hands a free connection to the request at the head of the queue.
AcquireConnection ==
    /\ phase = "running"
    /\ waiting # <<>>
    /\ BagCardinality(inflight) < max_connections
    /\ inflight' = inflight (+) SetToBag({Head(waiting)})
    /\ waiting' = Tail(waiting)
    /\ UNCHANGED <<phase, devices, server, started, completed, results, client_closed>>
    /\ UNCHANGED <<sessionVars, envVars, remoteVars>>

\* A request in flight gets its outcome; the connection is released (no
\* keep-alive) and the task ends.
CompleteRequest(stub) ==
    /\ phase = "running"
    /\ BagIn(stub, inflight)
    /\ inflight' = inflight (-) SetToBag({stub})
    /\ completed' = Append(completed, get_details_async(stub, server[stub.id]))
    /\ UNCHANGED <<phase, devices, server, started, waiting, results, client_closed>>
    /\ UNCHANGED <<sessionVars, envVars, remoteVars>>

\* `await f` on the next finished task, which the event loop reaches only
\* after every task has had its first step: its value is appended to the
\* results, its exception ends get_all_details (asyncio.run then cancels
\* the tasks that are left; the client is not closed).
Collect ==
    /\ phase = "running"
    /\ started = Len(devices)
    /\ completed # <<>>
    /\ completed' = Tail(completed)
    /\ IF Head(completed).exc # ""
       THEN /\ phase' = "raised"
            /\ last' = Op("get_all_details", Head(completed).exc, <<>>, <<>>)
            /\ UNCHANGED results
       ELSE /\ results' = Append(results, Head(completed).value)
            /\ UNCHANGED <<phase, last>>
    /\ UNCHANGED <<devices, server, started, waiting, inflight, client_closed>>
    /\ UNCHANGED <<sessionVars, now, issued, remoteVars>>

\* Every task has been awaited: the client is closed and the list returned.
ReturnResults ==
    /\ phase = "running"
    /\ started = Len(devices)
    /\ Len(results) = Len(devices)
    /\ client_closed' = TRUE
    /\ phase' = "returned"
    /\ UNCHANGED <<devices, server, started, waiting, inflight, completed, results>>
    /\ UNCHANGED <<sessionVars, envVars, remoteVars>>

NextBulk ==
    \/ GetAllDetails
    \/ StartTask
    \/ AcquireConnection
    \/ \E stub \in Stubs : CompleteRequest(stub)
    \/ Collect
    \/ ReturnResults

SpecBulk == Init /\ [][NextBulk]_vars

-----------------------------------------------------------------------------
(* The configuration-profile exclusion editor:                             *)
(* change_device_configuration_profile_exclusion, in both client classes   *)

\* The two client classes: PCJAMF of pc_jamf/__init__.py ("modern") and
\* PCJAMF of pc_jamf/pc_jamf.py ("legacy").
Impls == {"modern", "legacy"}

\* A device id as the caller passes it: an int (as annotated) or a str (as
\* the server's device lists give it).
IntId(n) == [type |-> "int", n |-> n]
StrId(n) == [type |-> "str", n |-> n]
DeviceIdArgs == {IntId(n) : n \in 1..MaxNodeId} \cup {StrId(n) : n \in 1..MaxNodeId}

\* str(x) and f"{x}": the decimal text of an int, a str unchanged.
str(x) == StrId(x.n)

\* Python's `x in seq`: equality of values, and an int never equals a str.
In(x, seq) == \E i \in DOMAIN seq : seq[i] = x

\* The fields a device node is built from.
RequiredKeys == {"name", "udid", "wifiMacAddress"}
DeviceDict(keys) == [kind |-> "dict", keys |-> keys]

\* self.device(device_id): the JSON object; on a status >= 400 the modern
\* class returns None, the legacy class the error document (none of the
\* required fields).
device_basic(impl, status, keys) ==
    IF status < 400 THEN DeviceDict(keys)
    ELSE IF impl = "modern" THEN None_
    ELSE DeviceDict({})

\* The last path segment of a profile URL: a profile id, or the literal text
\* "{configuration_profile_id}".
Segment(n) == [literal |-> FALSE, n |-> n]
PlaceholderSegment == [literal |-> TRUE, n |-> 0]

\* The segment get_configuration_profile requests: the modern class builds
\* the URL from an f-string followed by a plain string literal, so the braces
\* are sent as they are; the legacy class formats the id.
ProfileSegment(impl, configuration_profile_id) ==
    IF impl = "modern" THEN PlaceholderSegment
    ELSE Segment(configuration_profile_id)

\* Documents: a profile with its exclusion list (the texts of the id children
\* in document order), and the two shapes of the server's error page.
ProfileDoc(id, excluded) == [kind |-> "profile", id |-> id, excluded |-> excluded]
ErrorPages == {[kind |-> "malformed"], [kind |-> "no_exclusions"]}

\* The body the server answers a profile GET with.
ProfileBody(segment, page) ==
    IF ~segment.literal /\ segment.n \in ProfileIds
    THEN ProfileDoc(segment.n, profiles[segment.n])
    ELSE page

\* What the edit of the parsed document comes to: an exception, a return
\* without write-back, or a write-back of the edited exclusion list.
EditRaises(exc) == [kind |-> "raise", value |-> exc, excluded |-> <<>>]
EditReturns(v) == [kind |-> "return", value |-> v, excluded |-> <<>>]
EditWrites(excluded) == [kind |-> "write", value |-> "", excluded |-> excluded]

RemoveAt(seq, i) == SubSeq(seq, 1, i - 1) \o SubSeq(seq, i + 1, Len(seq))

\* excluded_ids: the id texts, which are strs.
excluded_ids(root) == [i \in DOMAIN root.excluded |-> StrId(root.excluded[i])]

\* findall(f"./mobile_device/[id='{device_id}']"): the nodes whose id text
\* is the formatted device id.
FindNodes(root, device_id) ==
    {i \in DOMAIN root.excluded : StrId(root.excluded[i]) = str(device_id)}

\* A variant of EditDocument that swallows the KeyError and writes the
\* half-built node back.
EditDocumentSwallowsKeyError(device_id, exclude_device, dev, body) ==
    IF body.kind = "malformed" THEN EditRaises("ParseError")
    ELSE IF body.kind # "profile" THEN EditRaises("IndexError")
    ELSE IF exclude_device /\ ~In(device_id, excluded_ids(body))
    THEN IF dev.kind = "None" THEN EditRaises("TypeError")
         ELSE EditWrites(Append(body.excluded, str(device_id).n))
    ELSE IF ~exclude_device
    THEN IF FindNodes(body, device_id) = {}
         THEN EditReturns("True")
         ELSE LET i == CHOOSE j \in FindNodes(body, device_id) :
                           \A k \in FindNodes(body, device_id) : j <= k
              IN EditWrites(RemoveAt(body.excluded, i))
    ELSE EditReturns("True")

\* Lines 376-402 of change_device_configuration_profile_exclusion, from the
\* body of the profile GET to the decision to write back: ET.fromstring, the
\* exclusions subtree, then the add or the remove.
EditDocument(device_id, exclude_device, dev, body) ==
    IF body.kind = "malformed" THEN EditRaises("ParseError")
    ELSE IF body.kind # "profile" THEN EditRaises("IndexError")
    ELSE IF exclude_device /\ ~In(device_id, excluded_ids(body))
    THEN IF dev.kind = "None" THEN EditRaises("TypeError")
         ELSE IF ~(RequiredKeys \subseteq dev.keys) THEN EditRaises("Exception")
         ELSE EditWrites(Append(body.excluded, str(device_id).n))
    ELSE IF ~exclude_device
    THEN IF FindNodes(body, device_id) = {}
         THEN EditReturns("True")
         ELSE LET i == CHOOSE j \in FindNodes(body, device_id) :
                           \A k \in FindNodes(body, device_id) : j <= k
              IN EditWrites(RemoveAt(body.excluded, i))
    ELSE EditReturns("True")

\* The statuses the server answers a profile PUT with: stored, or refused.
PutStatuses == {201, 500}

\* update_configuration_profile: True exactly on 201.
update_configuration_profile(status) == IF status = 201 THEN "True" ELSE "False"

Request(method, path, segment) == [method |-> method, path |-> path, segment |-> segment]

\* The device records a device GET is answered with: a status, and the
\* required fields the record has (all of them, or all but one).
KeySets == {RequiredKeys} \cup {RequiredKeys \ {k} : k \in RequiredKeys}
DeviceAnswers == ({200} \X KeySets) \cup {<<404, {}>>}

\* One call of change_device_configuration_profile_exclusion: the device GET,
\* the profile GET, the edit, and the PUT of the whole document to the id
\* found in the document itself.
ChangeExclusion(impl, device_id, configuration_profile_id, exclude_device) ==
    LET segment == ProfileSegment(impl, configuration_profile_id)
        known == ~segment.literal /\ segment.n \in ProfileIds
        gets == << Request("GET", "mobile-devices", Segment(device_id.n)),
                   Request("GET", "mobiledeviceconfigurationprofiles", segment) >>
    IN \E answer \in DeviceAnswers,
          page \in IF known THEN {[kind |-> "unused"]} ELSE ErrorPages :
        LET dev == device_basic(impl, answer[1], answer[2])
            body == ProfileBody(segment, page)
            edit == EditDocument(device_id, exclude_device, dev, body)
        IN /\ edit.kind = "write" => Len(edit.excluded) <= MaxExcluded
           /\ \E put_status \in IF edit.kind = "write" THEN PutStatuses ELSE {0} :
                /\ last' = [op |-> "change_exclusion",
                            result |-> IF edit.kind = "write"
                                       THEN update_configuration_profile(put_status)
                                       ELSE edit.value,
                            raised |-> edit.kind = "raise",
                            sent |-> IF edit.kind = "write"
                                     THEN Append(gets, Request("PUT",
                                             "mobiledeviceconfigurationprofiles",
                                             Segment(body.id)))
                                     ELSE gets,
                            responses |-> <<>>,
                            impl |-> impl,
                            device_id |-> device_id,
                            configuration_profile_id |-> configuration_profile_id,
                            exclude_device |-> exclude_device,
                            device |-> dev]
                /\ profiles' = IF edit.kind = "write" /\ put_status = 201
                               THEN [profiles EXCEPT ![body.id] = edit.excluded]
                               ELSE profiles
           /\ UNCHANGED <<sessionVars, now, issued, bulkVars, prestageVars, commandVars, inventoryVars>>

NextProfile ==
    \E impl \in Impls, device_id \in DeviceIdArgs,
       configuration_profile_id \in ProfileIds, exclude_device \in BOOLEAN :
        ChangeExclusion(impl, device_id, configuration_profile_id, exclude_device)

SpecProfile == Init /\ [][NextProfile]_vars

-----------------------------------------------------------------------------
(* The prestage scope editor: add_device_to_prestage,                      *)
(* remove_device_from_prestage and the calls they make (modern class)      *)

\* Device d has serial number d; 0 stands for an argument left at None.
Serials == 1..MaxSerial
SerialOf(device_id) == device_id

\* The record of a finished call of the scope editor.
ScopeCall(e, name, result, raised, st) ==
    [op |-> name, editor |-> e, result |-> result, raised |-> raised,
     sent |-> st.sent, responses |-> <<>>, serial |-> st.serial,
     read |-> st.read, pending |-> st.pending, lock |-> st.lock]

\* A variant of AlreadyScoped that looks at the head of the list only.
AlreadyScopedHeadOnly(serial_number, current_serials) ==
    current_serials # <<>> /\ Head(current_serials) = serial_number

\* `serial_number in current_serials`
AlreadyScoped(serial_number, current_serials) ==
    In(serial_number, current_serials)

\* The server's answer to a scope PUT: the write is accepted when it carries
\* the prestage's current version lock, refused with 409 when it does not;
\* the server may also fail (500) without applying anything.
ScopePutStatus(version_lock, healthy) ==
    IF ~healthy THEN 500
    ELSE IF version_lock = prestage.versionLock THEN 200
    ELSE 409

\* A variant of update_prestage_scope that reports success whatever the status.
update_prestage_scopeIgnoresStatus(status) == "True"

\* update_prestage_scope's return value: `r.status_code < 400`.
update_prestage_scope(status) == IF status < 400 THEN "True" ELSE "False"

\* add_device_to_prestage up to its scope read: the serial number is taken
\* from the device record when only a device id is given (a status >= 400
\* gives None, whose subscript raises TypeError), the scope is read (an error
\* answer has no "assignments": KeyError), and a serial already in the list
\* ends the call with True.
AddRead(e, device_id, serial_number) ==
    /\ editors[e].pc = "idle"
    /\ device_id # 0 \/ serial_number # 0
    /\ \E dev_status \in IF device_id # 0 /\ serial_number = 0
                          THEN {200, 404} ELSE {200},
          read_status \in {200, 500} :
        LET resolve == device_id # 0 /\ serial_number = 0
            serial == IF resolve THEN SerialOf(device_id) ELSE serial_number
            gets == IF resolve THEN <<"GET device">> ELSE <<>>
            st == [Idle EXCEPT !.op = "add", !.serial = serial]
        IN IF resolve /\ dev_status >= 400
           THEN /\ last' = ScopeCall(e, "add_device_to_prestage", "TypeError", TRUE,
                                     [st EXCEPT !.sent = gets, !.serial = 0])
                /\ UNCHANGED editors
           ELSE IF read_status >= 400
           THEN /\ last' = ScopeCall(e, "add_device_to_prestage", "KeyError", TRUE,
                                     [st EXCEPT !.sent = Append(gets, "GET scope")])
                /\ UNCHANGED editors
           ELSE LET rd == [st EXCEPT !.sent = Append(gets, "GET scope"),
                                     !.read = prestage.serials,
                                     !.pending = prestage.serials,
                                     !.lock = prestage.versionLock]
                IN IF AlreadyScoped(serial, prestage.serials)
                   THEN /\ last' = ScopeCall(e, "add_device_to_prestage", "True", FALSE, rd)
                        /\ UNCHANGED editors
                   ELSE /\ editors' = [editors EXCEPT ![e] =
                               [rd EXCEPT !.pc = "write",
                                          !.pending = Append(prestage.serials, serial)]]
                        /\ last' = Op("add_device_to_prestage", "running", rd.sent, <<>>)
    /\ UNCHANGED <<prestage, profileVars, commandVars, inventoryVars>>
    /\ UNCHANGED <<sessionVars, now, issued, bulkVars>>

\* remove_device_from_prestage up to the reverse lookup: the serial number
\* is taken from the detail record when only a device id is given; a call
\* with a serial number and no device id calls self.search_devices, which
\* the modern class does not have (AttributeError); get_prestage_id_for_device
\* fetches the device again and looks its serial number up in the
\* serial-to-prestage map; a device in no prestage ends the call with True.
RemoveLookup(e, device_id, serial_number) ==
    /\ editors[e].pc = "idle"
    /\ device_id # 0 \/ serial_number # 0
    /\ \E detail_status \in IF device_id # 0 /\ serial_number = 0
                             THEN {200, 404} ELSE {200},
          dev_status \in IF device_id # 0 THEN {200, 404} ELSE {200} :
        LET resolve == device_id # 0 /\ serial_number = 0
            serial == IF resolve THEN SerialOf(device_id) ELSE serial_number
            gets == IF resolve THEN <<"GET device detail">> ELSE <<>>
            st == [Idle EXCEPT !.op = "remove", !.serial = serial]
            looked == [st EXCEPT !.sent = gets \o <<"GET device", "GET scope map">>]
        IN IF resolve /\ detail_status >= 400
           THEN /\ last' = ScopeCall(e, "remove_device_from_prestage", "TypeError", TRUE,
                                     [st EXCEPT !.sent = gets, !.serial = 0])
                /\ UNCHANGED editors
           ELSE IF device_id = 0
           THEN /\ last' = ScopeCall(e, "remove_device_from_prestage", "AttributeError",
                                     TRUE, st)
                /\ UNCHANGED editors
           ELSE IF dev_status >= 400
           THEN /\ last' = ScopeCall(e, "remove_device_from_prestage", "TypeError", TRUE,
                                     [st EXCEPT !.sent = Append(gets, "GET device")])
                /\ UNCHANGED editors
           ELSE IF ~In(SerialOf(device_id), prestage.serials)
           THEN /\ last' = ScopeCall(e, "remove_device_from_prestage", "True", FALSE, looked)
                /\ UNCHANGED editors
           ELSE /\ editors' = [editors EXCEPT ![e] = [looked EXCEPT !.pc = "read"]]
                /\ last' = Op("remove_device_from_prestage", "running", looked.sent, <<>>)
    /\ UNCHANGED <<prestage, profileVars, commandVars, inventoryVars>>
    /\ UNCHANGED <<sessionVars, now, issued, bulkVars>>

\* [serial for serial in current_serials if serial != serial_number]
Without(current_serials, serial_number) ==
    SelectSeq(current_serials, LAMBDA serial : serial # serial_number)

\* remove_device_from_prestage's scope read and the list it builds.
RemoveRead(e) ==
    /\ editors[e].pc = "read"
    /\ \E read_status \in {200, 500} :
        LET st == [editors[e] EXCEPT !.sent = Append(@, "GET scope")]
        IN IF read_status >= 400
           THEN /\ last' = ScopeCall(e, "remove_device_from_prestage", "KeyError", TRUE, st)
                /\ editors' = [editors EXCEPT ![e] = Idle]
           ELSE /\ editors' = [editors EXCEPT ![e] =
                       [st EXCEPT !.pc = "write",
                                  !.read = prestage.serials,
                                  !.pending = Without(prestage.serials, st.serial),
                                  !.lock = prestage.versionLock]]
                /\ last' = Op("remove_device_from_prestage", "running", st.sent, <<>>)
    /\ UNCHANGED <<prestage, profileVars, commandVars, inventoryVars>>
    /\ UNCHANGED <<sessionVars, now, issued, bulkVars>>

\* update_prestage_scope, which ends both calls: one PUT of the list built
\* and the version lock read; the server applies it and moves the lock on
\* when it accepts; the call returns whether the status is below 400.
WriteScope(e) ==
    /\ editors[e].pc = "write"
    /\ \E healthy \in BOOLEAN :
        LET st == [editors[e] EXCEPT !.sent = Append(@, "PUT scope")]
            status == ScopePutStatus(st.lock, healthy)
        IN /\ status < 400 => prestage.versionLock < MaxLock
           /\ prestage' = IF status < 400
                          THEN [serials |-> st.pending,
                                versionLock |-> prestage.versionLock + 1]
                          ELSE prestage
           /\ last' = ScopeCall(e, IF st.op = "add" THEN "add_device_to_prestage"
                                   ELSE "remove_device_from_prestage",
                                update_prestage_scope(status), FALSE, st)
    /\ editors' = [editors EXCEPT ![e] = Idle]
    /\ UNCHANGED <<profileVars, commandVars, inventoryVars>>
    /\ UNCHANGED <<sessionVars, now, issued, bulkVars>>

NextPrestage ==
    \/ \E e \in Editors, device_id \in 0..MaxSerial, serial_number \in 0..MaxSerial :
          AddRead(e, device_id, serial_number)
    \/ \E e \in Editors, device_id \in 0..MaxSerial, serial_number \in 0..MaxSerial :
          RemoveLookup(e, device_id, serial_number)
    \/ \E e \in Editors : RemoveRead(e)
    \/ \E e \in Editors : WriteScope(e)

SpecPrestage == Init /\ [][NextPrestage]_vars

-----------------------------------------------------------------------------
(* The command dispatcher: flush_mobile_device_commands, update_device_name *)
(* with enforce_device_name, update_device and _send_command (modern class) *)

\* The statuses a single call is answered with.
CallStatuses == {200, 500}

\* The record of a finished command call: name, outcome, whether it raised,
\* the requests sent in order, and the arguments.
CommandCall(name, result, raised, sent, device_id, arg) ==
    [op |-> name, result |-> result, raised |-> raised, sent |-> sent,
     responses |-> <<>>, device_id |-> device_id, arg |-> arg]

\* A variant of ValidFlushStatus that accepts any status.
ValidFlushStatusAny(status) == TRUE

\* `status in ("Pending", "Failed", "Pending+Failed")`
ValidFlushStatus(status) == status \in {"Pending", "Failed", "Pending+Failed"}

\* The statuses callers pass to the flush.
FlushStatusArgs == {"Pending", "Failed", "Pending+Failed", "Bogus", "pending"}

\* The queue the server is left with by a delete-by-status.
Flushed(queue, status) ==
    IF status = "Pending+Failed" THEN {} ELSE queue \ {status}

\* flush_mobile_device_commands: the status is checked first (ValueError),
\* then one DELETE by status is sent and raise_for_status applied.
FlushCommands(device_id, status) ==
    \E answer \in CallStatuses :
        /\ IF ~ValidFlushStatus(status)
           THEN /\ last' = CommandCall("flush_mobile_device_commands", "ValueError",
                                       TRUE, <<>>, device_id, status)
                /\ UNCHANGED mdm
           ELSE LET sent == << <<"DELETE commandflush", device_id, status>> >>
                IN IF RaisesForStatus(answer)
                   THEN /\ last' = CommandCall("flush_mobile_device_commands",
                                               "HTTPStatusError", TRUE, sent,
                                               device_id, status)
                        /\ UNCHANGED mdm
                   ELSE /\ last' = CommandCall("flush_mobile_device_commands", "True",
                                               FALSE, sent, device_id, status)
                        /\ mdm' = [mdm EXCEPT ![device_id].queue = Flushed(@, status)]
        /\ UNCHANGED <<profileVars, prestageVars, inventoryVars>>
        /\ UNCHANGED <<sessionVars, now, issued, bulkVars>>

\* update_device_name: fetch_management_id (None.get raises AttributeError
\* when the detail fetch gave no record), then enforce_device_name when
\* enforce is set (update_device: PATCH and raise_for_status), then
\* _send_command (POST and raise_for_status).
UpdateDeviceName(device_id, enforce) ==
    \E detail \in CallStatuses, patch \in CallStatuses, post \in CallStatuses :
        LET get == <<"GET detail", device_id, "">>
            enforcement == <<"PATCH device", device_id, "enforceName">>
            command == <<"POST command", device_id, "SETTINGS">>
            before == IF enforce THEN <<get, enforcement>> ELSE <<get>>
        IN /\ IF detail >= 400
              THEN /\ last' = CommandCall("update_device_name", "AttributeError", TRUE,
                                          <<get>>, device_id, enforce)
                   /\ UNCHANGED mdm
              ELSE IF enforce /\ RaisesForStatus(patch)
              THEN /\ last' = CommandCall("update_device_name", "HTTPStatusError", TRUE,
                                          before, device_id, enforce)
                   /\ UNCHANGED mdm
              ELSE IF RaisesForStatus(post)
              THEN /\ last' = CommandCall("update_device_name", "HTTPStatusError", TRUE,
                                          Append(before, command), device_id, enforce)
                   /\ mdm' = [mdm EXCEPT ![device_id].enforceName = @ \/ enforce]
              ELSE /\ last' = CommandCall("update_device_name", "True", FALSE,
                                          Append(before, command), device_id, enforce)
                   /\ mdm' = [mdm EXCEPT ![device_id].enforceName = @ \/ enforce,
                                         ![device_id].queue = @ \cup {"Pending"}]
           /\ UNCHANGED <<profileVars, prestageVars, inventoryVars>>
           /\ UNCHANGED <<sessionVars, now, issued, bulkVars>>

\* A variant of install_action with the two codes exchanged.
install_actionSwapped(force_install) == IF force_install THEN 1 ELSE 2

\* `install_action = 2 if force_install else 1`
install_action(force_install) == IF force_install THEN 2 ELSE 1

\* update_os: flush_mobile_device_commands with its default status, whose
\* raise_for_status ends the call when the flush is refused; then the POST
\* of ScheduleOSUpdate with the install action, and raise_for_status again.
\* The responses are recorded in the order they were received.
UpdateOs(device_id, force_install) ==
    \E flush \in CallStatuses, post \in CallStatuses :
        LET deletion == <<"DELETE commandflush", device_id, "Pending+Failed">>
            schedule == <<"POST ScheduleOSUpdate", device_id,
                          install_action(force_install)>>
            flushed == [mdm EXCEPT ![device_id].queue = Flushed(@, "Pending+Failed")]
        IN /\ IF RaisesForStatus(flush)
              THEN /\ last' = [CommandCall("update_os", "HTTPStatusError", TRUE,
                                           <<deletion>>, device_id, force_install)
                                 EXCEPT !.responses = <<flush>>]
                   /\ UNCHANGED mdm
              ELSE IF RaisesForStatus(post)
              THEN /\ last' = [CommandCall("update_os", "HTTPStatusError", TRUE,
                                           <<deletion, schedule>>, device_id,
                                           force_install)
                                 EXCEPT !.responses = <<flush, post>>]
                   /\ mdm' = flushed
              ELSE /\ last' = [CommandCall("update_os", "text", FALSE,
                                           <<deletion, schedule>>, device_id,
                                           force_install)
                                 EXCEPT !.responses = <<flush, post>>]
                   /\ mdm' = [flushed EXCEPT ![device_id].queue = @ \cup {"Pending"}]
           /\ UNCHANGED <<profileVars, prestageVars, inventoryVars>>
           /\ UNCHANGED <<sessionVars, now, issued, bulkVars>>

\* The device answers a pending command with an error: the command is kept
\* in the queue as failed.
CommandFails(device_id) ==
    /\ "Pending" \in mdm[device_id].queue
    /\ mdm' = [mdm EXCEPT ![device_id].queue = (@ \ {"Pending"}) \cup {"Failed"}]
    /\ last' = Op("command_fails", "None", <<>>, <<>>)
    /\ UNCHANGED <<profileVars, prestageVars, inventoryVars>>
    /\ UNCHANGED <<sessionVars, now, issued, bulkVars>>

NextCommands ==
    \/ \E device_id \in ManagedDevices, status \in FlushStatusArgs :
          FlushCommands(device_id, status)
    \/ \E device_id \in ManagedDevices, enforce \in BOOLEAN :
          UpdateDeviceName(device_id, enforce)
    \/ \E device_id \in ManagedDevices, force_install \in BOOLEAN :
          UpdateOs(device_id, force_install)
    \/ \E device_id \in ManagedDevices : CommandFails(device_id)

SpecCommands == Init /\ [][NextCommands]_vars

-----------------------------------------------------------------------------
(* device_flattened (both classes have the same body)                      *)

RECURSIVE Values(_)
\* The values that nest at most depth deep: a scalar, a list of one value, an
\* object with a "name", an object without one.
Values(depth) ==
    IF depth = 0 THEN {Scalar}
    ELSE {Scalar, DictOf("id" :> Scalar)}
         \cup {ListOf(<<v>>) : v \in Values(depth - 1)}
         \cup {DictOf("name" :> v) : v \in Values(depth - 1)}

LocationKeys == <<"building", "room">>
NetworkKeys == {"imei"}

\* The parts a detail record may have: a location object, and an ios block
\* with a model, an applications list and a network object.
LocationParts ==
    {<<>>} \cup {"location" :> DictOf(f) :
                    f \in [{LocationKeys[i] : i \in DOMAIN LocationKeys} -> Values(MaxDepth)]}
NetworkParts ==
    {<<>>} \cup {"network" :> DictOf(g) : g \in [NetworkKeys -> Values(MaxDepth)]}
IosParts ==
    {<<>>} \cup {"ios" :> DictOf(("model" :> m) @@ apps @@ net) :
                    m \in Values(MaxDepth),
                    apps \in {<<>>, "applications" :> ListOf(<<Scalar>>)},
                    net \in NetworkParts}

\* The detail records the server may hold for the device.
DetailRecords ==
    {("id" :> Scalar) @@ ("extra" :> v) @@ loc @@ ios :
        v \in Values(MaxDepth), loc \in LocationParts, ios \in IosParts}

\* isinstance(v, (dict, list))
IsNested(v) == v.kind \in {"list", "dict"}

\* {prefix_k: v for k, v in d.items() if v is neither dict nor list}; a key
\* of the flattened record is the tuple of its parts.
ScalarItems(prefix, d) ==
    [key \in {prefix \o <<k>> : k \in {x \in DOMAIN d : ~IsNested(d[x])}} |->
        d[key[Len(key)]]]

\* {f"network_{k}": v for k, v in network.items()}
NetworkItems(network) ==
    [key \in {<<"network", k>> : k \in DOMAIN network} |-> network[key[2]]]

\* {f"location_{k}_name": v["name"] for the dict and list values of location}
LocationNames(location) ==
    [key \in {<<"location", k, "name">> : k \in {x \in DOMAIN location : IsNested(location[x])}} |->
        location[key[2]].fields["name"]]

\* The first nested value of location, in key order, whose ["name"] raises:
\* a list (TypeError) or an object without "name" (KeyError); 0 if none.
FirstBadName(location) ==
    LET bad == {i \in DOMAIN LocationKeys :
                   LET v == location[LocationKeys[i]]
                   IN v.kind = "list" \/ (v.kind = "dict" /\ "name" \notin DOMAIN v.fields)}
    IN IF bad = {} THEN 0 ELSE CHOOSE i \in bad : \A j \in bad : i <= j

FlatReturns(mapping) == [exc |-> "", mapping |-> mapping]
FlatRaises(exc) == [exc |-> exc, mapping |-> <<>>]

\* The body of device_flattened after the fetch; later updates overwrite
\* earlier keys.
Flatten(info) ==
    LET top == ScalarItems(<<>>, info)
        hasLocation == "location" \in DOMAIN info
        location == info["location"].fields
        hasIos == "ios" \in DOMAIN info
        ios == info["ios"].fields
    IN IF hasLocation /\ FirstBadName(location) # 0
       THEN FlatRaises(IF location[LocationKeys[FirstBadName(location)]].kind = "list"
                       THEN "TypeError" ELSE "KeyError")
       ELSE LET located == IF hasLocation
                           THEN LocationNames(location)
                                @@ ScalarItems(<<"location">>, location) @@ top
                           ELSE top
            IN IF ~hasIos THEN FlatReturns(located)
               ELSE IF "applications" \notin DOMAIN ios THEN FlatRaises("KeyError")
               ELSE IF "network" \notin DOMAIN ios THEN FlatRaises("KeyError")
               ELSE FlatReturns(NetworkItems(ios["network"].fields)
                                @@ (<<"application_count">> :> Scalar)
                                @@ ScalarItems(<<>>, ios) @@ located)

\* device_flattened(device_id): the detailed fetch, then the flattening; a
\* status >= 400 gives None, whose .items() raises AttributeError.
DeviceFlattened ==
    /\ \E status \in DetailStatuses :
          LET flat == IF status < 400 THEN Flatten(inventory)
                      ELSE FlatRaises("AttributeError")
          IN last' = [op |-> "device_flattened", result |-> flat.mapping,
                      raised |-> flat.exc # "", exc |-> flat.exc,
                      sent |-> <<"GET detail">>, responses |-> <<status>>]
    /\ UNCHANGED <<sessionVars, now, issued, bulkVars, remoteVars>>

\* The server holds any of the detail records.
InitFlatten ==
    /\ InitSession /\ InitEnv /\ InitBulk
    /\ InitProfile /\ InitPrestage /\ InitCommands
    /\ inventory \in DetailRecords

NextFlatten == DeviceFlattened

SpecFlatten == InitFlatten /\ [][NextFlatten]_vars

-----------------------------------------------------------------------------
(* search_devices (legacy class; the modern class has no such method)      *)

\* A search criterion as passed: None, the empty string, or a text.
Criteria == {"None", "empty", "text"}
Truthy(criterion) == criterion = "text"

\* The search parameters sent: paging, and the criteria that are truthy.
SearchParams(serial, name, udid, asset_tag) ==
    {"pageNumber", "pageSize"}
      \cup (IF Truthy(name) THEN {"name"} ELSE {})
      \cup (IF Truthy(serial) THEN {"serialNumber"} ELSE {})
      \cup (IF Truthy(udid) THEN {"udid"} ELSE {})
      \cup (IF Truthy(asset_tag) THEN {"assetTag"} ELSE {})

\* The server's answer to a search: a page of the matching devices with
\* their count, or an error document.
SearchAnswers ==
    {[status |-> 200, totalCount |-> n, results |-> [i \in 1..n |-> Stub(i)]] :
        n \in 0..MaxMatches}
      \cup {[status |-> 500, totalCount |-> 0, results |-> <<>>]}

\* A variant of HasResults that takes a count of zero for a result.
HasResultsOrNone(totalCount) == totalCount >= 0

\* `payload["totalCount"] > 0`
HasResults(totalCount) == totalCount > 0

SearchCall(impl, result, raised, exc, sent, responses, criteria) ==
    [op |-> "search_devices", impl |-> impl, result |-> result, raised |-> raised,
     exc |-> exc, sent |-> sent, responses |-> responses, criteria |-> criteria]

\* search_devices(serial, name, udid, asset_tag): without a truthy criterion
\* it raises before any request; otherwise one POST, whose JSON is read
\* whatever the status (an error document has no "totalCount": KeyError); the
\* results are returned when the count is positive, else it raises.
SearchDevices(impl, serial, name, udid, asset_tag) ==
    LET criteria == <<serial, name, udid, asset_tag>>
    IN /\ IF impl = "modern"
          THEN last' = SearchCall(impl, <<>>, TRUE, "AttributeError", <<>>, <<>>, criteria)
          ELSE IF ~\E i \in 1..4 : Truthy(criteria[i])
          THEN last' = SearchCall(impl, <<>>, TRUE, "Exception", <<>>, <<>>, criteria)
          ELSE \E answer \in SearchAnswers :
                 LET sent == << SearchParams(serial, name, udid, asset_tag) >>
                 IN last' = IF answer.status >= 400
                            THEN SearchCall(impl, <<>>, TRUE, "KeyError", sent,
                                            <<answer>>, criteria)
                            ELSE IF HasResults(answer.totalCount)
                            THEN SearchCall(impl, answer.results, FALSE, "", sent,
                                            <<answer>>, criteria)
                            ELSE SearchCall(impl, <<>>, TRUE, "Exception", sent,
                                            <<answer>>, criteria)
       /\ UNCHANGED <<sessionVars, now, issued, bulkVars, remoteVars>>

\* The statuses a device GET is answered with: success, and errors from
\* the first status that counts as one.
GetStatuses == {200, 400, 404, 500}

\* device(device_id, detail): one GET, of the device's path or of its
\* "/detail"; the modern class decodes the answer when the status is below
\* 400 and falls off the end (None) otherwise, the legacy class decodes it
\* always.  Nothing of the object is assigned.
GetDevice(impl, device_id, detail) ==
    /\ \E status \in GetStatuses :
          last' = [op |-> "device", impl |-> impl, device_id |-> device_id,
                   detail |-> detail,
                   result |-> IF impl = "modern" THEN device(device_id, status)
                              ELSE Json(device_id, status),
                   raised |-> FALSE,
                   sent |-> << <<"GET mobile-devices", device_id,
                                 IF detail THEN "/detail" ELSE "">> >>,
                   responses |-> <<status>>]
    /\ UNCHANGED <<sessionVars, now, issued, bulkVars, remoteVars>>

NextSearch ==
    \/ \E impl \in Impls, serial \in Criteria, name \in Criteria,
          udid \in Criteria, asset_tag \in Criteria :
           SearchDevices(impl, serial, name, udid, asset_tag)
    \/ \E impl \in Impls, device_id \in DeviceIds, detail \in BOOLEAN :
           GetDevice(impl, device_id, detail)

SpecSearch == Init /\ [][NextSearch]_vars

-----------------------------------------------------------------------------
(* Properties of the session lifecycle, checked under Spec *)

TokenLive == IsVal(token) /\ IsVal(auth_expiration) /\ auth_expiration.v > now

\* C1: in every reachable state a read of `authenticated` yields True if and
\* only if a token is stored and the stored expiry is strictly later than
\* now; the read changes nothing of the session and sends no request.
C1_AuthenticatedIffTokenLive ==
    /\ [](last.op = "authenticated" => (last.result = "True" <=> TokenLive))
    /\ [][last'.op = "authenticated" =>
            /\ UNCHANGED <<sessionVars, now, issued>>
            /\ last'.sent = <<>>
            /\ (last'.result = "True" <=> TokenLive)]_vars

\* C1 witness: the property was read True on a live token, and read not True
\* at the very second the token expires.
C1_Witness ==
    /\ last.op = "authenticated"
    /\ last.result = "False"
    /\ IsVal(token)
    /\ auth_expiration.v = now

SuccessfulAuthenticate(rec) == rec.op = "authenticate" /\ rec.result = "None"

\* C2: `authenticated` is not true before the first successful
\* authenticate(), is true right after every successful authenticate(), is
\* not true once the stored expiry is reached, and goes from not true to
\* true only in a step that is a successful authenticate().
C2_AuthenticatedLifecycle ==
    /\ [](issued = 0 => authenticated # "True")
    /\ [](SuccessfulAuthenticate(last) => authenticated = "True")
    /\ []((IsVal(auth_expiration) /\ auth_expiration.v <= now)
             => authenticated # "True")
    /\ [][(authenticated # "True" /\ authenticated' = "True")
             => SuccessfulAuthenticate(last')]_vars

\* C2 witness: a session that was authenticated has expired by the passage
\* of time, after more than one token was issued.
C2_Witness ==
    /\ last.op = "tick"
    /\ issued >= 2
    /\ IsVal(token)
    /\ auth_expiration.v < now
    /\ authenticated = "False"

\* C3 (as claimed): invalidate() on a session that is not authenticated, in
\* particular right after an invalidate() that succeeded, returns success,
\* sends no request and leaves the session as it was.
C3_InvalidateIdempotent ==
    [][(last'.op = "invalidate" /\ authenticated # "True")
          => /\ last'.result = "True"
             /\ last'.sent = <<>>
             /\ UNCHANGED sessionVars]_vars

\* C4 (as claimed): after invalidate() got a success answer the session has
\* no token, no expiry and no Authorization header and `authenticated` is
\* false; and after an accepted authenticate() the session is authenticated
\* with the token just issued.
C4_InvalidateClears ==
    /\ (last.op = "invalidate" /\ last.sent # <<>>
          /\ last.responses[1].status < 400)
         => /\ ~IsVal(token)
            /\ ~IsVal(auth_expiration)
            /\ "Authorization" \notin DOMAIN session_headers
            /\ authenticated \in {"False", "None"}
    /\ SuccessfulAuthenticate(last)
         => /\ authenticated = "True"
            /\ token = Val(last.responses[1].token)

\* C5: when invalidate() is called on an authenticated session and the
\* endpoint answers with a status >= 400, it returns False and token, expiry,
\* headers, client auth and credentials are what they were.
C5_InvalidateFailureKeepsState ==
    [][(/\ authenticated = "True"
        /\ last'.op = "invalidate"
        /\ last'.responses # <<>>
        /\ last'.responses[1].status >= 400)
          => /\ last'.result = "False"
             /\ UNCHANGED <<token, auth_expiration, session_headers,
                            session_auth, credentials>>]_vars

\* C5 witness: invalidate() has just failed on a session that is still
\* authenticated.
C5_Witness ==
    /\ last.op = "invalidate"
    /\ last.result = "False"
    /\ last.responses[1].status >= 400
    /\ authenticated = "True"

\* C6: authenticate() raises whenever the token endpoint answers with a
\* status >= 400 and then keeps token, expiry and the Authorization header;
\* on success it stores the issued token, the expiry in milliseconds divided
\* by 1000, no client auth, and the bearer header of the stored token.
C6_AuthenticateStoresOnlyOnSuccess ==
    [][(last'.op = "authenticate" /\ last'.responses # <<>>)
          => LET r == last'.responses[1]
             IN IF r.status >= 400
                THEN /\ last'.result = "HTTPStatusError"
                     /\ UNCHANGED <<token, auth_expiration>>
                     /\ DOMAIN session_headers' = DOMAIN session_headers
                     /\ \A k \in DOMAIN session_headers :
                           session_headers'[k] = session_headers[k]
                     /\ (authenticated # "True" => authenticated' # "True")
                ELSE /\ last'.result = "None"
                     /\ token' = Val(r.token)
                     /\ r.expires = auth_expiration'.v * 1000
                     /\ session_auth' = None_
                     /\ session_headers'["Authorization"] = <<"Bearer", token'.v>>]_vars

\* C6 witness: on a session holding a token, one authenticate() was refused
\* (the state shows the old token and the credentials left on the client).
C6_Witness ==
    /\ last.op = "authenticate"
    /\ last.result = "HTTPStatusError"
    /\ IsVal(token)
    /\ session_auth = Val(credentials)

\* C7 (as claimed): after close(), whatever the state it was called in, both
\* clients are closed, and if the session was authenticated the invalidation
\* endpoint was requested.
C7_CloseReleasesBoth ==
    [][last'.op = "close"
          => /\ session_closed'
             /\ classic_session_closed'
             /\ (authenticated = "True" /\ ~session_closed
                   => INVALIDATE_ENDPOINT \in {last'.sent[i] : i \in DOMAIN last'.sent})]_vars

-----------------------------------------------------------------------------
(* Properties of the bulk detail fetch, checked under SpecBulk *)

Range(seq) == {seq[i] : i \in DOMAIN seq}
SeqToBag(seq) == [x \in Range(seq) |-> Cardinality({i \in DOMAIN seq : seq[i] = x})]
BatchOver == phase \in {"returned", "raised"}

\* The stubs at hand all have an id and the server answers each of them with
\* a status.
AllAnswered ==
    \A i \in DOMAIN devices :
        devices[i].id # 0 /\ server[devices[i].id].kind = "response"

\* The same stubs fetched one by one with device(id, detail=True).
SequentialFetch ==
    [i \in DOMAIN devices |-> device(devices[i].id, server[devices[i].id].status)]

\* C8 (as claimed): for stubs that the server answers with success or with a
\* status >= 400, the bulk fetch returns one result per stub and the same
\* multiset of results as the sequential detailed fetch of the same stubs.
C8_BulkMatchesSequential ==
    (phase = "returned" /\ AllAnswered)
       => /\ Len(results) = Len(devices)
          /\ SeqToBag(results) = SeqToBag(SequentialFetch)

\* A stub's fetch fails when it has no id, the transport gives up or the
\* status is not 200.
Failed(stub) == stub.id = 0 \/ server[stub.id] # Answer(200)

\* C9 (as claimed): a run with failing stubs still ends by returning one
\* result per stub, a detail record for each stub that did not fail and none
\* for one that failed.
C9_FailureDoesNotAbort ==
    BatchOver
       => /\ phase = "returned"
          /\ Len(results) = Len(devices)
          /\ \A id \in DeviceIds :
                Cardinality({i \in DOMAIN results : results[i] = DetailRecord(id)})
                  = Cardinality({i \in DOMAIN devices :
                                    devices[i] = Stub(id) /\ ~Failed(Stub(id))})

\* The first half of C10 alone: never more requests in flight than the
\* connection limit.
InFlightBounded == BagCardinality(inflight) <= max_connections

\* C10 (as claimed): at most max_connections requests are in flight in every
\* state, and the requests that had to queue for a connection are all issued:
\* none is left in the queue when the run is over.
C10_BoundedAndAllIssued ==
    /\ BagCardinality(inflight) <= max_connections
    /\ BatchOver => waiting = <<>>

\* A state in which the connection limit binds: the pool is full and a
\* request queues.
PoolFullAndQueued ==
    BagCardinality(inflight) = max_connections /\ waiting # <<>>

\* No request of the batch is outstanding: none on the network, none queued
\* for a connection, no task still to start.
NoneOutstanding ==
    inflight = EmptyBag /\ waiting = <<>> /\ started = Len(devices)

\* C11 (as claimed): the blocking call ends by returning, and only once every
\* one of the N stubs has been resolved: when the call is over it has
\* returned N results, no request of the batch is outstanding, and the
\* short-lived client is closed only when no request is outstanding.  Every
\* stub has an id, so every task issues a request, which is answered or
\* exhausts its retries.
C11_ReturnsAfterAllResolved ==
    /\ (BatchOver /\ \A i \in DOMAIN devices : devices[i].id # 0)
          => (phase = "returned" /\ NoneOutstanding)
    /\ phase = "returned" => Len(results) = Len(devices)
    /\ client_closed => NoneOutstanding

-----------------------------------------------------------------------------
(* Properties of the exclusion editor, checked under SpecProfile *)

\* The number of nodes of an exclusion list whose id text is n.
Nodes(excluded, n) == Cardinality({i \in DOMAIN excluded : excluded[i] = n})

\* The last call was an add (exclude_device true) or a remove.
ExclusionCall(st, exclude_device) ==
    st.op = "change_exclusion" /\ st.exclude_device = exclude_device

\* The fetched device record lacks a required field, or there is no record.
Incomplete(dev) == dev.kind = "None" \/ ~(RequiredKeys \subseteq dev.keys)

\* C12 (as claimed): an add that returns success leaves exactly one node with
\* the device's id in the profile's exclusion list, and when a node with that
\* id was already there the add appends nothing and writes nothing back.
C12_AddIdempotent ==
    [][(ExclusionCall(last', TRUE) /\ ~last'.raised /\ last'.result = "True")
        => LET n == last'.device_id.n
               p == last'.configuration_profile_id
           IN /\ Nodes(profiles'[p], n) = 1
              /\ Nodes(profiles[p], n) >= 1
                   => (profiles' = profiles /\ Len(last'.sent) = 2)]_vars

\* C13 (as claimed): a remove of an id that is not in the exclusion list
\* returns success, raises nothing and leaves the server's list as it was; a
\* remove of an id that is in the list, when its write-back is accepted,
\* takes one node with that id out and leaves the other nodes in place.
C13_RemoveAbsentIsNoOp ==
    [][ExclusionCall(last', FALSE)
        => LET n == last'.device_id.n
               p == last'.configuration_profile_id
           IN IF Nodes(profiles[p], n) = 0
              THEN ~last'.raised /\ last'.result = "True" /\ profiles' = profiles
              ELSE /\ ~last'.raised
                   /\ last'.result = "True"
                        => \E i \in DOMAIN profiles[p] :
                              /\ profiles[p][i] = n
                              /\ profiles'[p] = RemoveAt(profiles[p], i)]_vars

\* C14 (as claimed): whenever the fetched device record lacks name, udid or
\* wifiMacAddress, or no record was fetched, an add raises an error, sends no
\* PUT and leaves the server's list as it was.
C14_IncompleteRecordFails ==
    [][(ExclusionCall(last', TRUE) /\ Incomplete(last'.device))
        => /\ last'.raised
           /\ Len(last'.sent) = 2
           /\ profiles' = profiles]_vars

\* C14 (amended): the same, for an add that does not find the device id among
\* the excluded ids; an add that finds it returns success without looking at
\* the record.
C14_IncompleteRecordFailsUnlessPresent ==
    [][(/\ ExclusionCall(last', TRUE)
        /\ Incomplete(last'.device)
        /\ ~In(last'.device_id,
               [i \in DOMAIN profiles[last'.configuration_profile_id] |->
                   StrId(profiles[last'.configuration_profile_id][i])]))
        => /\ last'.raised
           /\ Len(last'.sent) = 2
           /\ profiles' = profiles]_vars

\* C14 witness: the legacy class fetched the profile, went to build the node
\* from a record without all its fields, and raised.
C14_Witness ==
    /\ ExclusionCall(last, TRUE)
    /\ last.impl = "legacy"
    /\ last.device.kind = "dict"
    /\ Incomplete(last.device)
    /\ last.raised
    /\ last.result = "Exception"
    /\ profiles[last.configuration_profile_id] # <<>>

-----------------------------------------------------------------------------
(* Properties of the prestage scope editor, checked under SpecPrestage *)

\* The number of scope writes a call issued.
Writes(sent) == Cardinality({i \in DOMAIN sent : sent[i] = "PUT scope"})

\* The step ends a call of the named operation by returning.
ScopeCallReturns(name) ==
    last'.op = name /\ last'.result \in {"True", "False"}

\* C15: an add whose resolved serial number is in the serial list it has
\* just read returns True without a scope write; any other add that returns
\* has issued exactly one scope write.
C15_ScopedAddWritesNothing ==
    [][ScopeCallReturns("add_device_to_prestage")
        => IF In(last'.serial, last'.read)
           THEN last'.result = "True" /\ Writes(last'.sent) = 0
           ELSE Writes(last'.sent) = 1]_vars

\* C15 witness: an add of a serial that is second in a list of two returned
\* True after reading the scope, without a write.
C15_Witness ==
    /\ last.op = "add_device_to_prestage"
    /\ last.result = "True"
    /\ Len(last.read) = 2
    /\ last.read[2] = last.serial
    /\ last.sent = <<"GET device", "GET scope">>

\* Editor e issues its scope write in this step.
WritesScope(e) == editors[e].pc = "write" /\ editors'[e].pc = "idle"

\* C16: a scope write whose version lock is not the server's current lock
\* changes nothing on the server and its call returns False; a write that
\* succeeds leaves every other editor's lock stale, so of the writes issued
\* with one lock at most one succeeds; the call ends with that one write
\* whatever the answer (no retry); and the server's list changes only to the
\* list built by an editor whose read is still current.
C16_StaleWriteRejected ==
    [][\A e \in Editors :
        WritesScope(e)
          => /\ last'.editor = e
             /\ Writes(last'.sent) = 1
             /\ editors'[e] = Idle
             /\ editors[e].lock # prestage.versionLock
                  => (prestage' = prestage /\ last'.result = "False")
             /\ last'.result = "True"
                  => /\ editors[e].lock = prestage.versionLock
                     /\ editors[e].read = prestage.serials
                     /\ prestage'.serials = editors[e].pending
                     /\ \A f \in Editors \ {e} :
                           editors[f].pc = "write"
                             => editors[f].lock # prestage'.versionLock
             /\ last'.result = "False" => prestage' = prestage]_vars
    /\ [][prestage' # prestage => \E e \in Editors : WritesScope(e)]_vars

\* C16 witness: two editors read the same scope; one wrote, and the other's
\* write, carrying the lock of its stale read, has just been refused.
C16_Witness ==
    /\ last.op \in {"add_device_to_prestage", "remove_device_from_prestage"}
    /\ last.result = "False"
    /\ Writes(last.sent) = 1
    /\ last.lock < prestage.versionLock
    /\ last.read # prestage.serials
    /\ last.pending # prestage.serials

\* C23 (as claimed): an editor's scope read takes the server's current list
\* and lock; the write of the same call sends that lock and a list that
\* differs from the list read only in the target serial (add: the list read
\* plus the serial at its end; remove: the list read without the serial, the
\* others once each in their order); and a remove for an existing device that
\* is in no prestage returns True without reading a prestage's scope and
\* without a write.
C23_WriteCarriesReadLock ==
    /\ [][\A e \in Editors :
           /\ (editors[e].pc # "write" /\ editors'[e].pc = "write")
                => /\ editors'[e].lock = prestage.versionLock
                   /\ editors'[e].read = prestage.serials
           /\ WritesScope(e)
                => /\ last'.lock = editors[e].lock
                   /\ last'.read = editors[e].read
                   /\ last'.pending =
                        IF last'.op = "add_device_to_prestage"
                        THEN Append(last'.read, last'.serial)
                        ELSE SelectSeq(last'.read,
                                       LAMBDA serial : serial # last'.serial)]_vars
    /\ [][(/\ last'.op = "remove_device_from_prestage"
           /\ last'.result \notin {"running", "TypeError"}
           /\ editors[last'.editor].pc = "idle"
           /\ ~In(last'.serial, prestage.serials))
           => /\ ~last'.raised
              /\ last'.result = "True"
              /\ ~In("GET scope", last'.sent)
              /\ Writes(last'.sent) = 0]_vars

-----------------------------------------------------------------------------
(* Properties of the command dispatcher, checked under SpecCommands *)

\* C17: a flush with a status outside Pending, Failed, Pending+Failed raises
\* ValueError without sending any request and leaves every command queue as
\* it was; a flush with a status of the set sends exactly one request, the
\* delete-by-status for that device and status.
C17_FlushValidatesFirst ==
    [][last'.op = "flush_mobile_device_commands"
        => IF last'.arg \in {"Pending", "Failed", "Pending+Failed"}
           THEN last'.sent = << <<"DELETE commandflush", last'.device_id, last'.arg>> >>
           ELSE /\ last'.raised
                /\ last'.result = "ValueError"
                /\ last'.sent = <<>>
                /\ mdm' = mdm]_vars

\* C17 witness: a flush with status "Bogus" raised ValueError while the
\* device had commands queued.
C17_Witness ==
    /\ last.op = "flush_mobile_device_commands"
    /\ last.arg = "Bogus"
    /\ last.result = "ValueError"
    /\ last.sent = <<>>
    /\ mdm[last.device_id].queue = {"Pending", "Failed"}

\* C19 (as claimed): a rename with enforce set whose management id was
\* resolved sends the rename command, whether the enforcement update
\* succeeded or failed.
C19_EnforcementDoesNotBlockDispatch ==
    [][(/\ last'.op = "update_device_name"
        /\ last'.arg = TRUE
        /\ last'.result # "AttributeError")
        => \E i \in DOMAIN last'.sent : last'.sent[i][1] = "POST command"]_vars

\* C21: update_os sends the flush of the device's pending and failed
\* commands first and the schedule request second, after the flush has been
\* answered; when the flush is refused no schedule request is sent; and the
\* schedule request carries install code 2 when force_install is true and 1
\* when it is false.
C21_FlushThenSchedule ==
    [][last'.op = "update_os"
        => LET d == last'.device_id
           IN /\ last'.sent[1] = <<"DELETE commandflush", d, "Pending+Failed">>
              /\ Len(last'.responses) = Len(last'.sent)
              /\ IF last'.responses[1] >= 400
                 THEN last'.raised /\ Len(last'.sent) = 1
                 ELSE /\ Len(last'.sent) = 2
                      /\ last'.sent[2] = <<"POST ScheduleOSUpdate", d,
                                           IF last'.arg THEN 2 ELSE 1>>]_vars

\* C21 witness: an update without forced install was scheduled with code 1
\* after its flush, and the device's queue holds the new command only.
C21_Witness ==
    /\ last.op = "update_os"
    /\ last.arg = FALSE
    /\ ~last.raised
    /\ last.sent[2] = <<"POST ScheduleOSUpdate", last.device_id, 1>>
    /\ mdm[last.device_id].queue = {"Pending"}

-----------------------------------------------------------------------------
(* Properties of device_flattened, checked under SpecFlatten *)

\* C18 (as claimed): whatever nesting the detail record has at its top
\* level, in location, in the ios block and in its network object, the
\* mapping device_flattened returns has scalar values only.
C18_FlattenedValuesScalar ==
    (last.op = "device_flattened" /\ ~last.raised)
       => \A key \in DOMAIN last.result : ~IsNested(last.result[key])

-----------------------------------------------------------------------------
(* Properties of search_devices, checked under SpecSearch *)

\* C20: a search without a non-empty criterion raises before any request is
\* sent; a search the server answers with zero results raises; and every
\* list a search returns holds at least one device.
C20_SearchNeverReturnsEmpty ==
    [][last'.op = "search_devices"
        => /\ (\A i \in 1..4 : last'.criteria[i] # "text")
                => (last'.raised /\ last'.sent = <<>>)
           /\ (last'.responses # <<>> /\ last'.responses[1].totalCount = 0)
                => last'.raised
           /\ ~last'.raised => Len(last'.result) >= 1]_vars

\* C20 witness: a search by serial number reached the server, which found
\* nothing, and the call raised.
C20_Witness ==
    /\ last.op = "search_devices"
    /\ last.criteria = <<"text", "None", "None", "None">>
    /\ Len(last.sent) = 1
    /\ last.responses[1].status = 200
    /\ last.responses[1].totalCount = 0
    /\ last.raised
    /\ last.exc = "Exception"

\* C22: device() of the modern class, plain or detailed, sends one GET and
\* raises nothing; it returns None when the status is 400 or more and the
\* decoded record when the status is below 400; and it leaves the session
\* (token, expiry, headers, credentials, both clients) as it was.
C22_DeviceSoftNotFound ==
    [][(last'.op = "device" /\ last'.impl = "modern")
        => /\ ~last'.raised
           /\ Len(last'.sent) = 1
           /\ last'.sent[1][3] = (IF last'.detail THEN "/detail" ELSE "")
           /\ last'.result = IF last'.responses[1] >= 400
                             THEN NoRecord
                             ELSE Json(last'.device_id, last'.responses[1])
           /\ UNCHANGED sessionVars]_vars

\* C22 witness: a plain fetch answered with 400, the first status that counts
\* as an error, returned None.
C22_Witness ==
    /\ last.op = "device"
    /\ last.impl = "modern"
    /\ ~last.detail
    /\ last.responses = <<400>>
    /\ last.result = NoRecord
    /\ ~last.raised

====
